---- MODULE Spec2Model ----
(***************************************************************************)
(* VoiceFlow (src/src/voiceflow.py): hotkey listener, capture threads and  *)
(* the flush / resample / transcribe / clean / output pipeline, as a state *)
(* machine.  The listener thread runs on_press and on_release; on_release   *)
(* calls process_audio synchronously, so the pipeline steps are steps of   *)
(* the listener thread (lpc).  Every record_audio thread is a process of    *)
(* its own; the threads carry no identity, so capture[pc] counts the       *)
(* threads that are at position pc.                                         *)
(***************************************************************************)
EXTENDS Integers, Sequences, FiniteSets, TLC

(* ---- program constants (src/src/voiceflow.py:52-56) ---- *)
CHUNK == 1024
RATE == 44100

(* ---- bounds of the model ---- *)
\* frames is counted up to MaxFrames chunks (the 1-second gate needs 44)
MaxFrames == 44
\* number of record_audio threads that can be alive at once
MaxThreads == 2
\* longest text given to the sentence-newline rule in SpecRule
MaxLen == 4
\* how often SpecRule reapplies the rule to its own output
MaxApply == 3
\* number of program instances started
MaxProcs == 2

(* ---- texts: sequences of one-character strings ---- *)
WS == {" ", "\n"}
Punct == {".", "!", "?"}
Alphabet == {"a", ".", " ", "\n"}

\* Python None, and the clipboard content before the first cycle
NoneVal == <<"None">>
PriorClip == <<"prior">>

RECURSIVE lstrip(_)
lstrip(s) == IF s # <<>> /\ Head(s) \in WS THEN lstrip(Tail(s)) ELSE s

RECURSIVE rstrip(_)
rstrip(s) ==
    IF s # <<>> /\ s[Len(s)] \in WS THEN rstrip(SubSeq(s, 1, Len(s) - 1)) ELSE s

\* str.strip()
strip(s) == lstrip(rstrip(s))

\* len(re.split(r"(?<=[.!?])\s+", s)): every whitespace run that directly
\* follows '.', '!' or '?' is one separator, and n separators give n+1 parts
resplit_len(s) ==
    1 + Cardinality({i \in 2..Len(s) : s[i - 1] \in Punct /\ s[i] \in WS})

\* the rule returning the stripped text of line 346
sentence_newline_stripped(processed_text) ==
    IF resplit_len(strip(processed_text)) > 1
    THEN strip(processed_text) \o <<"\n">>
    ELSE strip(processed_text)

\* the rule with the test of line 347 off by one
sentence_newline_off_by_one(processed_text) ==
    IF resplit_len(strip(processed_text)) >= 1
    THEN processed_text \o <<"\n">>
    ELSE processed_text

\* process_transcription, lines 345-353: the sentence-newline rule
sentence_newline(processed_text) ==
    IF resplit_len(strip(processed_text)) > 1
    THEN processed_text \o <<"\n">>
    ELSE processed_text

\* len(frames) < RATE / CHUNK  (true division: 43 chunks are too short)
too_short(n) == n * CHUNK < RATE

VARIABLES
    is_recording,    \* global is_recording
    alt_pressed,     \* global alt_pressed
    frames,          \* len(frames): number of chunks in the global list
    capture,         \* capture[pc]: number of record_audio threads at pc
    lpc,             \* position of the listener thread
    FIREWORKS_API_KEY, GROQ_API_KEY, CEREBRAS_API_KEY, OPENAI_API_KEY,
    temp_file_name,  \* process_audio: is the local bound (the file was made)
    rawFile,         \* the raw-capture temporary file exists
    rawLen,          \* number of chunks written to the raw file
    procFile,        \* processed_output.wav exists
    transcription,   \* process_audio local
    processed_text,  \* process_audio / process_transcription local
    clipboard,       \* system clipboard content
    pasted,          \* text the active window received in this cycle
    calls,           \* external calls made since the last start, in order,
                     \* each with its outcome and the text it returned
    flushes,         \* calls of process_audio since the last start (2: more)
    clipAtStop,      \* clipboard content when on_release cleared is_recording
    framesAtStop,    \* len(frames) when on_release cleared is_recording
    lastEvent,       \* what the last key handler did
    aborted,         \* the except clause of record_audio ended the session
    main_pc,         \* main_pc[i]: position of instance i in __main__
    lock_owner,      \* instance holding the lock on /tmp/voiceflow.lock, 0: none
    listener,        \* listener[i]: keyboard.Listener of instance i
    exit_code,       \* exit_code[i]: exit status of instance i, -1: running
    perm_ok,         \* perm_ok[i]: microphone and temp files usable by i
    rule_in,         \* SpecRule: the text the rule was first given
    rule_out,        \* SpecRule: the result of the applications so far
    rule_n           \* SpecRule: number of applications so far

vars == <<is_recording, alt_pressed, frames, capture, lpc,
          FIREWORKS_API_KEY, GROQ_API_KEY, CEREBRAS_API_KEY, OPENAI_API_KEY,
          temp_file_name, rawFile, rawLen, procFile, transcription,
          processed_text, clipboard, pasted, calls, clipAtStop, flushes,
          framesAtStop, lastEvent, aborted, main_pc, lock_owner, listener,
          exit_code, perm_ok, rule_in, rule_out, rule_n>>

\* module-level values that no handler assigns, and the variables of SpecRule
main_vars == <<main_pc, lock_owner, listener, exit_code, perm_ok>>
keys == <<FIREWORKS_API_KEY, GROQ_API_KEY, CEREBRAS_API_KEY, OPENAI_API_KEY,
          main_vars, rule_in, rule_out, rule_n>>
files == <<temp_file_name, rawFile, rawLen, procFile>>
session == <<is_recording, alt_pressed, frames, capture>>

Keys == {"alt", "t", "other"}
\* program instances started on the machine
Procs == 1..MaxProcs
\* record_audio: in p.open, at the while condition, in stream.read
CapturePcs == {"open", "loop", "read"}

Init ==
    /\ is_recording = FALSE
    /\ alt_pressed = FALSE
    /\ frames = 0
    /\ capture = [pc \in CapturePcs |-> 0]
    /\ lpc = "listen"
    \* __main__, line 422: the listener only starts with one of the two
    \* transcription keys set
    /\ FIREWORKS_API_KEY \in BOOLEAN
    /\ GROQ_API_KEY \in BOOLEAN
    /\ FIREWORKS_API_KEY \/ GROQ_API_KEY
    /\ CEREBRAS_API_KEY \in BOOLEAN
    /\ OPENAI_API_KEY \in BOOLEAN
    /\ temp_file_name = FALSE
    /\ rawFile = FALSE
    /\ rawLen = 0
    /\ procFile = FALSE
    /\ transcription = NoneVal
    /\ processed_text = NoneVal
    /\ clipboard = PriorClip
    /\ pasted = NoneVal
    /\ calls = <<>>
    /\ clipAtStop = PriorClip
    /\ flushes = 0
    /\ framesAtStop = 0
    /\ lastEvent = "other"
    /\ aborted = FALSE
    \* instance 1 has started its listener (line 431); every other instance
    \* found the lock taken and left at line 410
    /\ main_pc = [i \in Procs |-> IF i = 1 THEN "running" ELSE "exit_lock"]
    /\ lock_owner = 1
    /\ listener = [i \in Procs |-> IF i = 1 THEN "started" ELSE "never"]
    /\ exit_code = [i \in Procs |-> IF i = 1 THEN -1 ELSE 1]
    /\ perm_ok = [i \in Procs |-> TRUE]
    /\ rule_in = <<>>
    /\ rule_out = <<>>
    /\ rule_n = 0

\* record_audio threads that were started and have not returned
NAlive == capture["open"] + capture["loop"] + capture["read"]

(* ---- on_press, lines 84-95 ---- *)
\* line 89 true: is_recording = True; frames = []; Thread(record_audio).start()
start_recording ==
    /\ is_recording' = TRUE
    /\ frames' = 0
    /\ NAlive < MaxThreads
    /\ capture' = [capture EXCEPT !["open"] = @ + 1]
    /\ calls' = <<>>
    /\ pasted' = NoneVal
    /\ framesAtStop' = 0
    /\ lastEvent' = "start"
    /\ aborted' = FALSE
    /\ flushes' = 0
    /\ UNCHANGED <<alt_pressed, lpc, keys, files, transcription,
                   processed_text, clipboard, clipAtStop>>

\* line 89 without its last conjunct
can_start_unguarded(key) == key = "t" /\ alt_pressed

\* line 89: key.char == "t" and alt_pressed and not is_recording
can_start(key) == key = "t" /\ alt_pressed /\ ~is_recording

\* callbacks run on other threads than the one inside process_audio
listener_free_always == TRUE

\* lines 106 and 430: keyboard.Listener runs on_press and on_release one
\* after the other on its own thread, and on_release calls process_audio
\* on that thread, so a callback runs only when none is running
listener_free == lpc = "listen"

on_press(key) ==
    /\ listener_free
    /\ IF key = "alt"
       THEN /\ alt_pressed' = TRUE
            /\ lastEvent' = "other"
            /\ UNCHANGED <<is_recording, frames, capture, lpc, keys, files,
                           transcription, processed_text, clipboard, pasted,
                           calls, clipAtStop, flushes, framesAtStop, aborted>>
       ELSE IF can_start(key)
       THEN start_recording
       ELSE /\ lastEvent' = IF key = "t" /\ alt_pressed THEN "rejected"
                            ELSE "other"
            /\ UNCHANGED <<session, lpc, keys, files, transcription,
                           processed_text, clipboard, pasted, calls,
                           clipAtStop, flushes, framesAtStop, aborted>>

(* ---- on_release, lines 98-108 ---- *)
\* line 103 without its last conjunct
should_stop_unguarded(key) == key \in {"alt", "t"}

\* line 103 for the letter key alone
should_stop_only_letter(key) == key = "t" /\ is_recording

\* line 103: (key == keyboard.Key.alt or key.char == "t") and is_recording
should_stop(key) == key \in {"alt", "t"} /\ is_recording

\* on_release without line 104
on_release_flag_kept(key) ==
    /\ listener_free
    /\ alt_pressed' = IF key = "alt" THEN FALSE ELSE alt_pressed
    /\ IF should_stop(key)
       THEN /\ framesAtStop' = frames
            /\ clipAtStop' = clipboard
            /\ flushes' = IF flushes < 2 THEN flushes + 1 ELSE 2
            /\ lpc' = "pa_flush"
            /\ lastEvent' = "stop"
            /\ UNCHANGED is_recording
       ELSE /\ lastEvent' = "noop_release"
            /\ UNCHANGED <<is_recording, framesAtStop, clipAtStop, flushes, lpc>>
    /\ UNCHANGED <<frames, capture, keys, files, transcription, processed_text,
                   clipboard, pasted, calls, aborted>>

\* lines 98-108: line 104 clears is_recording before line 106 calls
\* process_audio
on_release(key) ==
    /\ listener_free
    /\ alt_pressed' = IF key = "alt" THEN FALSE ELSE alt_pressed
    /\ IF should_stop(key)
       THEN /\ is_recording' = FALSE
            /\ framesAtStop' = frames
            /\ clipAtStop' = clipboard
            /\ flushes' = IF flushes < 2 THEN flushes + 1 ELSE 2
            /\ lpc' = "pa_flush"
            /\ lastEvent' = "stop"
       ELSE /\ lastEvent' = "noop_release"
            /\ UNCHANGED <<is_recording, framesAtStop, clipAtStop, flushes, lpc>>
    /\ UNCHANGED <<frames, capture, keys, files, transcription, processed_text,
                   clipboard, pasted, calls, aborted>>

(* ---- record_audio, lines 111-137, one step of one thread ---- *)
\* the except clause, lines 135-137, reached from position pc
record_except_keeps_flag(pc) ==
    /\ UNCHANGED is_recording
    /\ aborted' = (aborted \/ is_recording)
    /\ capture' = [capture EXCEPT ![pc] = @ - 1]

\* lines 135-137: log, is_recording = False, and the thread returns
record_except(pc) ==
    /\ is_recording' = FALSE
    /\ aborted' = (aborted \/ is_recording)
    /\ capture' = [capture EXCEPT ![pc] = @ - 1]

\* p.open(...), lines 114-123
record_open ==
    /\ capture["open"] > 0
    /\ \/ /\ capture' = [capture EXCEPT !["open"] = @ - 1, !["loop"] = @ + 1]
          /\ UNCHANGED <<is_recording, aborted>>
       \/ record_except("open")
    /\ lastEvent' = "other"
    /\ UNCHANGED <<alt_pressed, frames, lpc, keys, files, transcription,
                   processed_text, clipboard, pasted, calls, clipAtStop, flushes,
                   framesAtStop>>

\* line 124: is_recording and (time.time() - start_time) < MAX_RECORD_SECONDS
loop_continues(timeUp) == is_recording /\ ~timeUp

\* the while condition, line 124, and lines 130-134 when it is false;
\* timeUp is (time.time() - start_time) >= MAX_RECORD_SECONDS
record_loop ==
    /\ capture["loop"] > 0
    /\ \E timeUp \in BOOLEAN :
          IF loop_continues(timeUp)
          THEN /\ capture' = [capture EXCEPT !["loop"] = @ - 1, !["read"] = @ + 1]
               /\ lastEvent' = "other"
          ELSE /\ capture' = [capture EXCEPT !["loop"] = @ - 1]
               /\ lastEvent' = IF is_recording THEN "cap" ELSE "other"
    /\ UNCHANGED <<is_recording, alt_pressed, frames, lpc, keys, files,
                   transcription, processed_text, clipboard, pasted, calls,
                   clipAtStop, flushes, framesAtStop, aborted>>

\* data = stream.read(CHUNK); frames.append(data), lines 125-126
record_read ==
    /\ capture["read"] > 0
    /\ \/ /\ frames < MaxFrames
          /\ frames' = frames + 1
          /\ capture' = [capture EXCEPT !["read"] = @ - 1, !["loop"] = @ + 1]
          /\ UNCHANGED <<is_recording, aborted>>
       \/ /\ record_except("read")
          /\ UNCHANGED frames
    /\ lastEvent' = "other"
    /\ UNCHANGED <<alt_pressed, lpc, keys, files, transcription,
                   processed_text, clipboard, pasted, calls, clipAtStop, flushes,
                   framesAtStop>>

(* ---- process_audio, lines 140-210, run by the listener thread ---- *)
\* responses of a transcription provider and contents of a cleanup reply
TrResponses == {<<" ">>, <<"a", " ">>}
Contents == {<<"a", ".">>, <<"a", ".", " ", "a">>}
HttpOutcomes == {"ok", "http_error", "conn_error", "timeout"}

\* a test "x is None" in place of "not x"
falsy_none_only(x) == x = NoneVal

\* "if not x" of Python for None and str
falsy(x) == x = NoneVal \/ x = <<>>

pipeline_frame == <<is_recording, alt_pressed, frames, capture, keys,
                    clipAtStop, flushes, framesAtStop, aborted>>

\* lines 146-158: NamedTemporaryFile, wave.open ... writeframes(b"".join(frames))
pa_flush ==
    /\ lpc = "pa_flush"
    /\ \E outcome \in {"ok", "no_file", "write_error"} :
          /\ temp_file_name' = (outcome # "no_file")
          /\ rawFile' = (outcome # "no_file")
          /\ rawLen' = IF outcome = "ok" THEN frames ELSE 0
          /\ lpc' = IF outcome = "ok" THEN "pa_check" ELSE "pa_finally"
    /\ lastEvent' = "other"
    /\ UNCHANGED <<pipeline_frame, procFile, transcription, processed_text,
                   clipboard, pasted, calls>>

\* lines 161-163: the 1-second gate
pa_check ==
    /\ lpc = "pa_check"
    /\ lpc' = IF too_short(frames) THEN "pa_finally" ELSE "pa_ffmpeg"
    /\ lastEvent' = "other"
    /\ UNCHANGED <<pipeline_frame, files, transcription, processed_text,
                   clipboard, pasted, calls>>

\* one entry of calls
Call(svc, out, txt) == [svc |-> svc, out |-> out, txt |-> txt]
Called(svc) == \E i \in 1..Len(calls) : calls[i].svc = svc
Ok(svc) == \E i \in 1..Len(calls) : calls[i].svc = svc /\ calls[i].out = "ok"
Failed(svc) == \E i \in 1..Len(calls) : calls[i].svc = svc /\ calls[i].out # "ok"
TxtOf(svc) == calls[CHOOSE i \in 1..Len(calls) : calls[i].svc = svc].txt

\* lines 168-182 with the error swallowed instead of re-raised at line 182
pa_ffmpeg_error_swallowed ==
    /\ lpc = "pa_ffmpeg"
    /\ \/ /\ procFile' = TRUE
          /\ calls' = Append(calls, Call("ffmpeg", "ok", <<>>))
       \/ /\ procFile' \in {procFile, TRUE}
          /\ calls' = Append(calls, Call("ffmpeg", "error", <<>>))
    /\ lpc' = "tr_fireworks"
    /\ lastEvent' = "other"
    /\ UNCHANGED <<pipeline_frame, temp_file_name, rawFile, rawLen,
                   transcription, processed_text, clipboard, pasted>>

\* lines 168-182: ffmpeg.run; ffmpeg.Error is re-raised
pa_ffmpeg ==
    /\ lpc = "pa_ffmpeg"
    /\ \/ /\ procFile' = TRUE
          /\ calls' = Append(calls, Call("ffmpeg", "ok", <<>>))
          /\ lpc' = "tr_fireworks"
       \/ /\ procFile' \in {procFile, TRUE}
          /\ calls' = Append(calls, Call("ffmpeg", "error", <<>>))
          /\ lpc' = "pa_finally"
    /\ lastEvent' = "other"
    /\ UNCHANGED <<pipeline_frame, temp_file_name, rawFile, rawLen,
                   transcription, processed_text, clipboard, pasted>>

(* ---- transcribe_audio, lines 213-275 ---- *)
\* Where the Fireworks attempt, lines 221-245, leaves the listener.
\* requests sets e.response on every RequestException, to None when no reply
\* arrived, so line 244 is always true and line 245 raises AttributeError
\* for a connection failure or a timeout; that error leaves transcribe_audio
\* and is caught at line 201 of process_audio.
fireworks_next_fallthrough(outcome) ==
    CASE outcome = "ok" -> "tr_groq"
      [] outcome = "http_error" -> "tr_groq"
      [] OTHER -> "pa_finally"

fireworks_next(outcome) ==
    CASE outcome = "ok" -> "pa_transcribed"
      [] outcome = "http_error" -> "tr_groq"
      [] OTHER -> "pa_finally"

\* lines 215-245
tr_fireworks ==
    /\ lpc = "tr_fireworks"
    /\ IF ~procFile
       THEN /\ transcription' = NoneVal
            /\ lpc' = "pa_transcribed"
            /\ UNCHANGED calls
       ELSE IF FIREWORKS_API_KEY
       THEN \E outcome \in HttpOutcomes, r \in TrResponses \cup {<<>>} :
               /\ (r = <<>>) = (outcome # "ok")
               /\ calls' = Append(calls, Call("fireworks", outcome, r))
               /\ transcription' = IF outcome = "ok" THEN strip(r)
                                   ELSE transcription
               /\ lpc' = fireworks_next(outcome)
       ELSE /\ lpc' = "tr_groq"
            /\ UNCHANGED <<transcription, calls>>
    /\ lastEvent' = "other"
    /\ UNCHANGED <<pipeline_frame, files, processed_text, clipboard, pasted>>

\* lines 248-275: every Exception of the Groq call is caught, and the
\* function then returns None at line 275
tr_groq ==
    /\ lpc = "tr_groq"
    /\ IF GROQ_API_KEY
       THEN \E outcome \in HttpOutcomes, r \in TrResponses \cup {<<>>} :
               /\ (r = <<>>) = (outcome # "ok")
               /\ calls' = Append(calls, Call("groq", outcome, r))
               /\ transcription' = IF outcome = "ok" THEN strip(r)
                                   ELSE NoneVal
       ELSE /\ transcription' = NoneVal
            /\ UNCHANGED calls
    /\ lpc' = "pa_transcribed"
    /\ lastEvent' = "other"
    /\ UNCHANGED <<pipeline_frame, files, processed_text, clipboard, pasted>>

\* lines 186-188 left out
transcribed_next_unchecked(t) == "pt_cerebras"

\* lines 186-188: if not transcription: raise Exception
transcribed_next(t) == IF falsy(t) THEN "pa_finally" ELSE "pt_cerebras"

\* lines 186-191
pa_transcribed ==
    /\ lpc = "pa_transcribed"
    /\ lpc' = transcribed_next(transcription)
    /\ lastEvent' = "other"
    /\ UNCHANGED <<pipeline_frame, files, transcription, processed_text,
                   clipboard, pasted, calls>>

(* ---- process_transcription, lines 278-353 ---- *)
\* "malformed": a 2xx reply without choices[0].message.content (KeyError,
\* which is not a requests.RequestException and leaves the function)
ChatOutcomes == HttpOutcomes \cup {"malformed"}

\* lines 315-318: where the Cerebras attempt leaves the listener
cerebras_next(outcome) ==
    CASE outcome = "ok" -> "pt_rule"
      [] outcome = "malformed" -> "pa_finally"
      [] OTHER -> "pt_openai"

\* lines 336-340: where the OpenAI attempt leaves the listener
openai_next(outcome) ==
    CASE outcome = "ok" -> "pt_rule"
      [] outcome = "malformed" -> "pa_finally"
      [] OTHER -> "pa_copy"

\* lines 293-318: the request is sent whatever CEREBRAS_API_KEY holds
pt_cerebras ==
    /\ lpc = "pt_cerebras"
    /\ \E outcome \in ChatOutcomes, c \in Contents \cup {<<>>} :
          /\ (c = <<>>) = (outcome # "ok")
          /\ calls' = Append(calls, Call("cerebras", outcome, c))
          /\ processed_text' = IF outcome = "ok" THEN c ELSE processed_text
          /\ lpc' = cerebras_next(outcome)
    /\ lastEvent' = "other"
    /\ UNCHANGED <<pipeline_frame, files, transcription, clipboard, pasted>>

\* lines 319-340: the fallback, sent whatever OPENAI_API_KEY holds;
\* a RequestException here makes process_transcription return None
pt_openai ==
    /\ lpc = "pt_openai"
    /\ \E outcome \in ChatOutcomes, c \in Contents \cup {<<>>} :
          /\ (c = <<>>) = (outcome # "ok")
          /\ calls' = Append(calls, Call("openai", outcome, c))
          /\ processed_text' = IF outcome = "ok" THEN c ELSE NoneVal
          /\ lpc' = openai_next(outcome)
    /\ lastEvent' = "other"
    /\ UNCHANGED <<pipeline_frame, files, transcription, clipboard, pasted>>

\* lines 345-353: the sentence-newline rule, then return processed_text
pt_rule ==
    /\ lpc = "pt_rule"
    /\ processed_text' = sentence_newline(processed_text)
    /\ lpc' = "pa_copy"
    /\ lastEvent' = "other"
    /\ UNCHANGED <<pipeline_frame, files, transcription, clipboard, pasted,
                   calls>>

\* line 197 with the transcription in place of the cleaned text
pa_copy_transcription ==
    /\ lpc = "pa_copy"
    /\ \E outcome \in {"ok", "error"} :
          /\ processed_text = NoneVal => outcome = "error"
          /\ calls' = Append(calls, Call("pyperclip.copy", outcome, transcription))
          /\ clipboard' = IF outcome = "ok" THEN transcription ELSE clipboard
          /\ lpc' = IF outcome = "ok" THEN "ins_xclip" ELSE "pa_finally"
    /\ lastEvent' = "other"
    /\ UNCHANGED <<pipeline_frame, files, transcription, processed_text,
                   pasted>>

\* line 197: pyperclip.copy(processed_text).  pyperclip raises
\* PyperclipException for a value that is not str, int, float or bool, and
\* when no copy mechanism works; either is caught at line 201.
pa_copy ==
    /\ lpc = "pa_copy"
    /\ \E outcome \in {"ok", "error"} :
          /\ processed_text = NoneVal => outcome = "error"
          /\ calls' = Append(calls, Call("pyperclip.copy", outcome, processed_text))
          /\ clipboard' = IF outcome = "ok" THEN processed_text ELSE clipboard
          /\ lpc' = IF outcome = "ok" THEN "ins_xclip" ELSE "pa_finally"
    /\ lastEvent' = "other"
    /\ UNCHANGED <<pipeline_frame, files, transcription, processed_text,
                   pasted>>

(* ---- insert_text_into_active_window, lines 356-374 ---- *)
\* lines 361-365: xclip; CalledProcessError and FileNotFoundError are logged
ins_xclip ==
    /\ lpc = "ins_xclip"
    /\ \E outcome \in {"ok", "error"} :
          /\ calls' = Append(calls, Call("xclip", outcome, processed_text))
          /\ clipboard' = IF outcome = "ok" THEN processed_text ELSE clipboard
          /\ lpc' = IF outcome = "ok" THEN "ins_xdotool" ELSE "pa_finally"
    /\ lastEvent' = "other"
    /\ UNCHANGED <<pipeline_frame, files, transcription, processed_text,
                   pasted>>

\* line 368: xdotool key ctrl+v pastes the clipboard into the active window
ins_xdotool ==
    /\ lpc = "ins_xdotool"
    /\ \E outcome \in {"ok", "error"} :
          /\ calls' = Append(calls, Call("xdotool", outcome, <<>>))
          /\ pasted' = IF outcome = "ok" THEN clipboard ELSE pasted
    /\ lpc' = "pa_finally"
    /\ lastEvent' = "other"
    /\ UNCHANGED <<pipeline_frame, files, transcription, processed_text,
                   clipboard>>

\* the finally clause without line 207
pa_finally_keeps_processed ==
    /\ lpc = "pa_finally"
    /\ rawFile' = IF temp_file_name THEN FALSE ELSE rawFile
    /\ temp_file_name' = FALSE
    /\ rawLen' = 0
    /\ transcription' = NoneVal
    /\ processed_text' = NoneVal
    /\ lpc' = "pa_done"
    /\ lastEvent' = "other"
    /\ UNCHANGED <<pipeline_frame, procFile, clipboard, pasted, calls>>

\* lines 203-210: os.unlink of both files; with temp_file_name unbound the
\* first unlink raises and the second is skipped.  process_audio returns.
pa_finally ==
    /\ lpc = "pa_finally"
    /\ IF temp_file_name
       THEN /\ rawFile' = FALSE
            /\ procFile' = FALSE
       ELSE UNCHANGED <<rawFile, procFile>>
    /\ temp_file_name' = FALSE
    /\ rawLen' = 0
    /\ transcription' = NoneVal
    /\ processed_text' = NoneVal
    /\ lpc' = "pa_done"
    /\ lastEvent' = "other"
    /\ UNCHANGED <<pipeline_frame, clipboard, pasted, calls>>

\* process_audio has returned: on_release returns to the listener loop
\* (the per-cycle records calls, pasted and framesAtStop start over)
pa_return ==
    /\ lpc = "pa_done"
    /\ lpc' = "listen"
    /\ calls' = <<>>
    /\ pasted' = NoneVal
    /\ framesAtStop' = 0
    /\ lastEvent' = "other"
    /\ UNCHANGED <<session, keys, files, transcription, processed_text,
                   clipboard, clipAtStop, flushes, aborted>>

process_audio ==
    \/ pa_flush
    \/ pa_check
    \/ pa_ffmpeg
    \/ pa_transcribed
    \/ pa_copy
    \/ pa_finally
    \/ pa_return

transcribe_audio ==
    \/ tr_fireworks
    \/ tr_groq

process_transcription ==
    \/ pt_cerebras
    \/ pt_openai
    \/ pt_rule

insert_text_into_active_window ==
    \/ ins_xclip
    \/ ins_xdotool

record_audio ==
    \/ record_open
    \/ record_loop
    \/ record_read

Next ==
    \/ \E key \in Keys : on_press(key)
    \/ \E key \in Keys : on_release(key)
    \/ record_audio
    \/ process_audio
    \/ transcribe_audio
    \/ process_transcription
    \/ insert_text_into_active_window

Spec == Init /\ [][Next]_vars

(* ---- the sentence-newline rule on its own ---- *)
Texts == UNION {[1..n -> Alphabet] : n \in 0..MaxLen}

InitRule ==
    /\ is_recording = FALSE
    /\ alt_pressed = FALSE
    /\ frames = 0
    /\ capture = [pc \in CapturePcs |-> 0]
    /\ lpc = "listen"
    /\ FIREWORKS_API_KEY = TRUE
    /\ GROQ_API_KEY = TRUE
    /\ CEREBRAS_API_KEY = TRUE
    /\ OPENAI_API_KEY = TRUE
    /\ temp_file_name = FALSE
    /\ rawFile = FALSE
    /\ rawLen = 0
    /\ procFile = FALSE
    /\ transcription = NoneVal
    /\ processed_text = NoneVal
    /\ clipboard = PriorClip
    /\ pasted = NoneVal
    /\ calls = <<>>
    /\ clipAtStop = PriorClip
    /\ flushes = 0
    /\ framesAtStop = 0
    /\ lastEvent = "other"
    /\ aborted = FALSE
    /\ main_pc = [i \in Procs |-> IF i = 1 THEN "running" ELSE "exit_lock"]
    /\ lock_owner = 1
    /\ listener = [i \in Procs |-> IF i = 1 THEN "started" ELSE "never"]
    /\ exit_code = [i \in Procs |-> IF i = 1 THEN -1 ELSE 1]
    /\ perm_ok = [i \in Procs |-> TRUE]
    /\ rule_in \in Texts
    /\ rule_out = rule_in
    /\ rule_n = 0

\* lines 345-353 applied to their own result
apply_rule ==
    /\ rule_n < MaxApply
    /\ rule_out' = sentence_newline(rule_out)
    /\ rule_n' = rule_n + 1
    /\ UNCHANGED <<is_recording, alt_pressed, frames, capture, lpc,
                   FIREWORKS_API_KEY, GROQ_API_KEY, CEREBRAS_API_KEY,
                   OPENAI_API_KEY, files, transcription, processed_text,
                   clipboard, pasted, calls, clipAtStop, flushes, framesAtStop,
                   lastEvent, aborted, main_vars, rule_in>>

NextRule == apply_rule

SpecRule == InitRule /\ [][NextRule]_vars

(* ---- __main__, lines 414-442, one step of one instance ---- *)
\* everything the listener and its threads work on
runtime == <<is_recording, alt_pressed, frames, capture, lpc,
             FIREWORKS_API_KEY, GROQ_API_KEY, CEREBRAS_API_KEY,
             OPENAI_API_KEY, files, transcription, processed_text, clipboard,
             pasted, calls, clipAtStop, flushes, framesAtStop, lastEvent, aborted,
             rule_in, rule_out, rule_n>>

InitMain ==
    /\ is_recording = FALSE
    /\ alt_pressed = FALSE
    /\ frames = 0
    /\ capture = [pc \in CapturePcs |-> 0]
    /\ lpc = "listen"
    /\ FIREWORKS_API_KEY \in BOOLEAN
    /\ GROQ_API_KEY \in BOOLEAN
    /\ CEREBRAS_API_KEY = TRUE
    /\ OPENAI_API_KEY = TRUE
    /\ temp_file_name = FALSE
    /\ rawFile = FALSE
    /\ rawLen = 0
    /\ procFile = FALSE
    /\ transcription = NoneVal
    /\ processed_text = NoneVal
    /\ clipboard = PriorClip
    /\ pasted = NoneVal
    /\ calls = <<>>
    /\ clipAtStop = PriorClip
    /\ flushes = 0
    /\ framesAtStop = 0
    /\ lastEvent = "other"
    /\ aborted = FALSE
    /\ main_pc = [i \in Procs |-> "obtain_lock"]
    /\ lock_owner = 0
    /\ listener = [i \in Procs |-> "never"]
    /\ exit_code = [i \in Procs |-> -1]
    /\ perm_ok \in [Procs -> BOOLEAN]
    /\ rule_in = <<>>
    /\ rule_out = <<>>
    /\ rule_n = 0

\* sys.exit(code), or the end of the script: the process is gone and the
\* kernel drops the lock it held
exit(i, pc, code) ==
    /\ main_pc' = [main_pc EXCEPT ![i] = pc]
    /\ exit_code' = [exit_code EXCEPT ![i] = code]
    /\ lock_owner' = IF lock_owner = i THEN 0 ELSE lock_owner

\* lines 404-411 with the IOError of lockf ignored
obtain_lock_unchecked(i) ==
    /\ main_pc[i] = "obtain_lock"
    /\ lock_owner' = i
    /\ main_pc' = [main_pc EXCEPT ![i] = "check_permissions"]
    /\ UNCHANGED exit_code
    /\ UNCHANGED <<listener, perm_ok, runtime>>

\* lines 404-411: lockf(LOCK_EX | LOCK_NB) fails at once when another
\* process holds the lock
obtain_lock(i) ==
    /\ main_pc[i] = "obtain_lock"
    /\ IF lock_owner = 0
       THEN /\ lock_owner' = i
            /\ main_pc' = [main_pc EXCEPT ![i] = "check_permissions"]
            /\ UNCHANGED exit_code
       ELSE exit(i, "exit_lock", 1)
    /\ UNCHANGED <<listener, perm_ok, runtime>>

\* lines 417-419, with check_permissions, lines 377-401
check_permissions(i) ==
    /\ main_pc[i] = "check_permissions"
    /\ IF perm_ok[i]
       THEN /\ main_pc' = [main_pc EXCEPT ![i] = "check_keys"]
            /\ UNCHANGED <<exit_code, lock_owner>>
       ELSE exit(i, "exit_permissions", 1)
    /\ UNCHANGED <<listener, perm_ok, runtime>>

\* line 422 taken as always satisfied
has_transcription_key_skipped == TRUE

\* line 422: FIREWORKS_API_KEY or GROQ_API_KEY
has_transcription_key == FIREWORKS_API_KEY \/ GROQ_API_KEY

\* lines 422-427
check_keys(i) ==
    /\ main_pc[i] = "check_keys"
    /\ IF has_transcription_key
       THEN /\ main_pc' = [main_pc EXCEPT ![i] = "start_listener"]
            /\ UNCHANGED <<exit_code, lock_owner>>
       ELSE exit(i, "exit_keys", 1)
    /\ UNCHANGED <<listener, perm_ok, runtime>>

\* lines 430-431: keyboard.Listener(...).start()
start_listener(i) ==
    /\ main_pc[i] = "start_listener"
    /\ listener' = [listener EXCEPT ![i] = "started"]
    /\ main_pc' = [main_pc EXCEPT ![i] = "running"]
    /\ UNCHANGED <<exit_code, lock_owner, perm_ok, runtime>>

\* lines 434-442: KeyboardInterrupt ends the sleep loop, listener.stop(),
\* and the script ends with status 0
interrupt(i) ==
    /\ main_pc[i] = "running"
    /\ listener' = [listener EXCEPT ![i] = "stopped"]
    /\ exit(i, "exit_interrupt", 0)
    /\ UNCHANGED <<perm_ok, runtime>>

NextMain ==
    \/ \E i \in Procs : obtain_lock(i)
    \/ \E i \in Procs : check_permissions(i)
    \/ \E i \in Procs : check_keys(i)
    \/ \E i \in Procs : start_listener(i)
    \/ \E i \in Procs : interrupt(i)

SpecMain == InitMain /\ [][NextMain]_vars

(* ======================= the claims ======================= *)
Downstream == {"ffmpeg", "fireworks", "groq", "cerebras", "openai",
               "pyperclip.copy", "xclip", "xdotool"}
InCycle == lpc # "listen"
CycleOver == lpc \in {"pa_finally", "pa_done"}

\* C1: a session whose buffer held less than 1 second of audio when
\* on_release stopped it makes no downstream call and produces no output.
C1_ShortAtStopNoDownstream ==
    too_short(framesAtStop) =>
        /\ \A svc \in Downstream : ~Called(svc)
        /\ pasted = NoneVal
        /\ InCycle => clipboard = clipAtStop

\* C2: in both chains a provider whose credential is absent is never invoked.
C2_NoCredentialNoCall ==
    /\ ~FIREWORKS_API_KEY => ~Called("fireworks")
    /\ ~GROQ_API_KEY => ~Called("groq")
    /\ ~CEREBRAS_API_KEY => ~Called("cerebras")
    /\ ~OPENAI_API_KEY => ~Called("openai")

\* C3: a failed attempt of a transcription provider (HTTP error status,
\* connection failure, timeout) makes the chain advance to the next
\* credentialed provider: the stage only ends in failure after that
\* provider was tried.
C3_FailedAttemptAdvances ==
    (CycleOver /\ Failed("fireworks") /\ GROQ_API_KEY) => Called("groq")

\* C4: in each chain the first provider that returns non-error text decides
\* the result of the stage and no later provider of the chain is invoked.
C4_FirstSuccessDecides ==
    /\ Ok("fireworks") =>
          /\ ~Called("groq")
          /\ lpc = "pa_transcribed" => transcription = strip(TxtOf("fireworks"))
    /\ (Ok("groq") /\ lpc = "pa_transcribed") =>
          transcription = strip(TxtOf("groq"))
    /\ Ok("cerebras") =>
          /\ ~Called("openai")
          /\ lpc = "pa_copy" =>
                processed_text = sentence_newline(TxtOf("cerebras"))
    /\ (Ok("openai") /\ lpc = "pa_copy") =>
          processed_text = sentence_newline(TxtOf("openai"))

C4_Witness ==
    /\ lpc = "pa_done"
    /\ Ok("fireworks") /\ GROQ_API_KEY
    /\ Ok("cerebras") /\ OPENAI_API_KEY

\* C5: when every transcription provider that was asked returned an error,
\* the cycle aborts: no cleanup provider, no clipboard write, no paste, the
\* clipboard keeps its value, both temporary files are gone at the end and
\* the session is Idle.
AllTranscriptionFailed ==
    /\ Called("fireworks") \/ Called("groq")
    /\ ~Ok("fireworks") /\ ~Ok("groq")

C5_TranscriptionFailureAborts ==
    (CycleOver /\ AllTranscriptionFailed) =>
        /\ \A svc \in {"cerebras", "openai", "pyperclip.copy", "xclip",
                       "xdotool"} : ~Called(svc)
        /\ clipboard = clipAtStop
        /\ pasted = NoneVal
        /\ ~is_recording
        /\ lpc = "pa_done" => ~rawFile /\ ~procFile

C5_Witness ==
    /\ lpc = "pa_done"
    /\ Failed("fireworks") /\ Failed("groq")

\* C6: when every cleanup provider fails, the output sink is not invoked
\* for that cycle: no clipboard write is attempted, no paste is sent.
C6_CleanupFailureSkipsOutput ==
    (Failed("cerebras") /\ Failed("openai")) =>
        \A svc \in {"pyperclip.copy", "xclip", "xdotool"} : ~Called(svc)

\* C7 as claimed: the rule is idempotent, any number of applications gives
\* the result of one application.
C7_Idempotent == rule_n >= 1 => rule_out = sentence_newline(rule_in)

RECURSIVE Newlines(_)
Newlines(n) == IF n = 0 THEN <<>> ELSE <<"\n">> \o Newlines(n - 1)

\* C7 as amended: text that splits into 2 or more sentences gets one more
\* trailing newline with every application (n applications append n
\* newlines); text that does not split is returned unchanged however often
\* the rule is applied.
C7_OneNewlinePerApplication ==
    rule_out = rule_in \o
        Newlines(IF resplit_len(strip(rule_in)) > 1 THEN rule_n ELSE 0)

C7_Witness == rule_n >= 2 /\ resplit_len(strip(rule_in)) > 1

\* C8: the press-combination while already Recording is rejected: no
\* capture thread is started, the buffer is not reset, the state stays
\* Recording.
C8_StartWhileRecordingRejected ==
    [][(is_recording /\ alt_pressed /\ on_press("t")) =>
          (capture' = capture /\ frames' = frames /\ is_recording')]_vars

C8_Witness ==
    /\ lastEvent = "rejected"
    /\ is_recording
    /\ frames > 0
    /\ NAlive = 1

\* C9: at most one capture task is alive in every reachable state.
C9_AtMostOneCaptureTask == NAlive <= 1

\* C10: when a capture thread leaves its loop on the 300-second cap while
\* the session is Recording, the session is stopped as by on_release: the
\* state is Idle and process_audio has been entered.
C10_CapBehavesAsStop ==
    lastEvent = "cap" => (~is_recording /\ lpc = "pa_flush")

\* C11: once on_release has stopped the session and the flush has written
\* the buffer, no capture thread appends to it any more: the number of
\* chunks in the raw file is the number that line 161 tests.
C11_FlushedBufferIsStable == lpc = "pa_check" => rawLen = frames

\* C12: the key handlers stay responsive while process_audio is in flight:
\* a press or release of any key can be handled in every state.
C12_ListenerResponsive ==
    \A key \in Keys : ENABLED on_press(key) /\ ENABLED on_release(key)

Count(svc) == Cardinality({i \in 1..Len(calls) : calls[i].svc = svc})

\* C13: a recording that passes the 1-second gate is normalized once, the
\* normalized file exists before and while the transcription providers are
\* invoked, and it no longer exists once the cycle has ended, whatever
\* happened in the later stages.
C13_NormalizedFileLifecycle ==
    /\ Count("ffmpeg") <= 1
    /\ \A i \in 1..Len(calls) :
          calls[i].svc \in {"fireworks", "groq"} =>
             \E j \in 1..(i - 1) :
                calls[j].svc = "ffmpeg" /\ calls[j].out = "ok"
    /\ lpc \in {"tr_fireworks", "tr_groq"} => procFile
    /\ lpc \in {"pa_done", "listen"} => ~procFile

C13_Witness ==
    /\ lpc = "pa_done"
    /\ Ok("ffmpeg")
    /\ Called("fireworks") \/ Called("groq")
    /\ ~Ok("pyperclip.copy")

\* the pipeline stage a logged call belongs to
StageOf(svc) ==
    CASE svc = "ffmpeg" -> 2
      [] svc \in {"fireworks", "groq"} -> 3
      [] svc \in {"cerebras", "openai"} -> 4
      [] OTHER -> 5

\* C14 as claimed: a call of a later stage is made only when every earlier
\* stage that was entered has produced a result (a failed stage is followed
\* by no later stage), no call is made twice, and when process_audio has
\* returned both temporary files are gone and the session is idle.
C14_FailedStageEndsCycle ==
    /\ \A i \in 1..Len(calls) : \A j \in (i + 1)..Len(calls) :
          StageOf(calls[i].svc) < StageOf(calls[j].svc) =>
             \E k \in 1..(j - 1) :
                /\ StageOf(calls[k].svc) = StageOf(calls[i].svc)
                /\ calls[k].out = "ok"
    /\ \A i \in 1..Len(calls) : Count(calls[i].svc) = 1
    /\ lpc = "pa_done" => ~rawFile /\ ~procFile /\ ~is_recording

\* C15 as claimed: every failed attempt of the primary cleanup provider,
\* a reply without choices[0].message.content included, is followed by an
\* attempt of the fallback provider before the cycle ends.
C15_CleanupFallsBack ==
    (CycleOver /\ Failed("cerebras")) => Called("openai")

\* C16: after a failure of p.open or stream.read has ended a session, the
\* process is idle (not recording, listener waiting for keys), no pipeline
\* step runs and no external call is made for that session's buffer, and
\* the next press of the letter key with the modifier held starts a
\* recording with an empty buffer.
C16_CaptureFailureAbortsSession ==
    /\ [](aborted => (~is_recording /\ lpc = "listen" /\ calls = <<>>
                      /\ ~rawFile /\ ~procFile))
    /\ [][(aborted /\ alt_pressed /\ on_press("t")) =>
             (is_recording' /\ frames' = 0 /\ ~aborted')]_vars

C16_Witness == aborted /\ frames > 0 /\ lastEvent = "noop_release"

\* C17: a key release handled while is_recording is false changes neither
\* the recording flag nor the buffer, signals no capture thread, and does
\* not start process_audio.
C17_StopWhenIdleIsNoOp ==
    [][(~is_recording /\ \E key \in Keys : on_release(key)) =>
          /\ ~is_recording'
          /\ frames' = frames
          /\ capture' = capture
          /\ lpc' = "listen"
          /\ calls' = calls
          /\ files' = files]_vars

C17_Witness ==
    /\ lastEvent = "noop_release"
    /\ ~is_recording
    /\ ~aborted
    /\ ~alt_pressed
    /\ frames > 0

\* C18: is_recording becomes true only in on_press of the letter key with
\* the modifier held and no recording under way, and the release of the
\* modifier or of the letter key during a recording ends it and starts
\* process_audio.
C18_ChordStartsReleaseStops ==
    /\ [][(~is_recording /\ is_recording') =>
             (alt_pressed /\ lpc = "listen" /\ on_press("t"))]_vars
    /\ [][(is_recording /\ (on_release("alt") \/ on_release("t"))) =>
             (~is_recording' /\ lpc' = "pa_flush")]_vars

C18_Witness ==
    /\ lastEvent = "stop"
    /\ alt_pressed
    /\ framesAtStop > 0

\* what process_transcription returned in this cycle, from the logged replies
CleanupResult ==
    IF Ok("cerebras") THEN sentence_newline(TxtOf("cerebras"))
    ELSE IF Ok("openai") THEN sentence_newline(TxtOf("openai"))
    ELSE NoneVal

\* C19: the paste keystroke is issued only after the clipboard was written
\* (pyperclip.copy and xclip both succeeded earlier in the cycle); the
\* clipboard tools are given, and the window receives, exactly the text
\* process_transcription returned; no output tool is called twice; once
\* the clipboard was written it keeps that text when xclip or xdotool
\* fails; and the cycle ends with the session idle.
C19_ClipboardThenPaste ==
    /\ \A j \in 1..Len(calls) :
          calls[j].svc = "xdotool" =>
             /\ \E i \in 1..(j - 1) :
                   calls[i].svc = "pyperclip.copy" /\ calls[i].out = "ok"
             /\ \E i \in 1..(j - 1) :
                   calls[i].svc = "xclip" /\ calls[i].out = "ok"
    /\ \A i \in 1..Len(calls) :
          calls[i].svc \in {"pyperclip.copy", "xclip"} =>
             calls[i].txt = CleanupResult
    /\ Ok("pyperclip.copy") => clipboard = CleanupResult
    /\ pasted # NoneVal => (Ok("xdotool") /\ pasted = CleanupResult)
    /\ \A svc \in {"pyperclip.copy", "xclip", "xdotool"} : Count(svc) <= 1
    /\ (lpc = "pa_done" /\ Called("pyperclip.copy")) => ~is_recording

C19_Witness ==
    /\ lpc = "pa_done"
    /\ Ok("pyperclip.copy")
    /\ Failed("xdotool")
    /\ clipboard = CleanupResult
    /\ clipboard # clipAtStop

\* C20: an instance's listener is started only while the instance holds the
\* lock, with the permission check passed and a transcription key present;
\* an instance that found the lock taken, failed the permission check or
\* has no transcription key has left with exit code 1 and never started
\* its listener.
C20_ListenerOnlyAfterStartupChecks ==
    \A i \in Procs :
       /\ listener[i] = "started" =>
             (lock_owner = i /\ perm_ok[i] /\ has_transcription_key)
       /\ main_pc[i] \in {"start_listener", "running"} =>
             (lock_owner = i /\ perm_ok[i] /\ has_transcription_key)
       /\ (~perm_ok[i] \/ ~(FIREWORKS_API_KEY \/ GROQ_API_KEY)) =>
             (listener[i] = "never"
              /\ main_pc[i] \in {"obtain_lock", "check_permissions",
                                 "check_keys", "exit_lock",
                                 "exit_permissions", "exit_keys"})
       /\ main_pc[i] \in {"exit_lock", "exit_permissions", "exit_keys"} =>
             (exit_code[i] = 1 /\ listener[i] = "never")

C20_Witness ==
    \E i, j \in Procs :
       /\ listener[i] = "started"
       /\ main_pc[j] = "exit_lock"
       /\ exit_code[j] = 1

\* positions of __main__ after obtain_lock has returned
PastLock == {"check_permissions", "check_keys", "start_listener", "running"}

\* C21: over every interleaving of the instances' startup steps, an instance
\* that is past obtain_lock holds the lock, so at most one instance is past
\* it; an instance that calls obtain_lock while another holds the lock is
\* not made to wait and leaves with exit code 1 in that step; and the lock
\* leaves its holder only when the holder exits.
C21_OneInstancePastLock ==
    /\ [](\A i \in Procs : main_pc[i] \in PastLock => lock_owner = i)
    /\ [](Cardinality({i \in Procs : main_pc[i] \in PastLock}) <= 1)
    /\ [](\A i \in Procs : main_pc[i] = "obtain_lock" => ENABLED obtain_lock(i))
    /\ [][\A i \in Procs :
            (obtain_lock(i) /\ lock_owner # 0) =>
               (main_pc'[i] = "exit_lock" /\ exit_code'[i] = 1
                /\ lock_owner' = lock_owner)]_vars
    /\ [][\A i \in Procs :
            (lock_owner = i /\ lock_owner' # i) =>
               (main_pc'[i] \notin PastLock /\ exit_code'[i] # -1)]_vars

C21_Witness ==
    \E i, j \in Procs :
       /\ lock_owner = i
       /\ main_pc[i] = "check_keys"
       /\ main_pc[j] = "exit_lock"
       /\ exit_code[j] = 1

\* s has a '.', '!' or '?' directly followed by whitespace
HasBoundary(s) == \E i \in 1..(Len(s) - 1) : s[i] \in Punct /\ s[i + 1] \in WS

\* C22: one application of the rule returns the input with one newline
\* appended when the stripped input has a sentence boundary, and the
\* input itself, character for character, when it has none.
C22_RuleAppendsOneNewline ==
    rule_n = 1 =>
       IF HasBoundary(strip(rule_in))
       THEN /\ Len(rule_out) = Len(rule_in) + 1
            /\ SubSeq(rule_out, 1, Len(rule_in)) = rule_in
            /\ rule_out[Len(rule_out)] = "\n"
       ELSE rule_out = rule_in

C22_Witness ==
    /\ rule_n = 1
    /\ HasBoundary(strip(rule_in))
    /\ Head(rule_in) \in WS
    /\ rule_out = rule_in \o <<"\n">>

\* C23: when ffmpeg.run has failed, no transcription provider, no cleanup
\* provider and no output tool is called in that cycle, the clipboard and
\* the window are left alone, and process_audio returns with both
\* temporary files removed and the session idle; and every provider call
\* is the first call after one successful ffmpeg run of the same cycle or
\* follows such a call.
C23_ResamplerFailureIsFatal ==
    /\ Failed("ffmpeg") =>
          /\ Len(calls) = 1
          /\ clipboard = clipAtStop
          /\ pasted = NoneVal
          /\ lpc \in {"pa_finally", "pa_done"}
    /\ (lpc = "pa_done" /\ Failed("ffmpeg")) =>
          (~rawFile /\ ~procFile /\ ~temp_file_name /\ ~is_recording)
    /\ \A svc \in {"fireworks", "groq", "cerebras", "openai"} :
          Called(svc) => (calls[1].svc = "ffmpeg" /\ calls[1].out = "ok")

C23_Witness ==
    /\ lpc = "pa_done"
    /\ Failed("ffmpeg")
    /\ ~too_short(framesAtStop)
    /\ ~rawFile

\* C24: process_audio is entered only when no run of it is under way and
\* the files of the run before are gone, and processed_output.wav exists,
\* and is created or removed, only inside the one run under way.
C24_OnePipelineInFlight ==
    /\ [][(lpc # "pa_flush" /\ lpc' = "pa_flush") =>
             (lpc = "listen" /\ ~procFile /\ ~rawFile /\ ~temp_file_name
              /\ calls = <<>>)]_vars
    /\ [](procFile => lpc \notin {"listen", "pa_flush", "pa_check", "pa_done"})
    /\ [][procFile' # procFile => lpc \in {"pa_ffmpeg", "pa_finally"}]_vars

C24_Witness ==
    /\ lpc = "tr_fireworks"
    /\ procFile
    /\ clipAtStop # PriorClip

\* C25: between one start and the next process_audio is called at most
\* once, also when the second key of the chord is released after the
\* first, and not at all for a session that a capture failure has ended.
C25_SessionFlushedAtMostOnce ==
    /\ flushes <= 1
    /\ aborted => flushes = 0
    /\ is_recording => flushes = 0

C25_Witness ==
    /\ flushes = 1
    /\ lpc = "listen"
    /\ lastEvent = "noop_release"
    /\ ~alt_pressed

\* what transcribe_audio returned in this cycle, from the logged replies
TranscriptionResult ==
    IF Ok("fireworks") THEN strip(TxtOf("fireworks"))
    ELSE IF Ok("groq") THEN strip(TxtOf("groq"))
    ELSE NoneVal

\* C26: process_transcription is entered, and a cleanup provider or an
\* output tool is called, only with a transcript that is neither None nor
\* empty; when transcribe_audio returned an empty string, as from a first
\* provider that answered with blank text, the cycle ends with no cleanup
\* call and with the clipboard and the window untouched.
C26_NoCleanupOfEmptyTranscript ==
    /\ lpc \in {"pt_cerebras", "pt_openai", "pt_rule"} =>
          (transcription # NoneVal /\ transcription # <<>>)
    /\ \A svc \in {"cerebras", "openai", "pyperclip.copy", "xclip", "xdotool"} :
          Called(svc) =>
             (TranscriptionResult # NoneVal /\ TranscriptionResult # <<>>)
    /\ (CycleOver /\ TranscriptionResult = <<>>) =>
          /\ ~Called("cerebras") /\ ~Called("openai")
          /\ clipboard = clipAtStop
          /\ pasted = NoneVal

C26_Witness ==
    /\ lpc = "pa_done"
    /\ Ok("fireworks")
    /\ TxtOf("fireworks") # <<>>
    /\ TranscriptionResult = <<>>
    /\ ~Called("groq")
====
